---- MODULE Spec2Model ----
(***************************************************************************)
(* A model of extraction/cubicasa.py: the floor-plan entities (rooms,      *)
(* walls, railings, wall openings, fixtures), wall overlap resolution,     *)
(* adjacency inference and fixture containment.                            *)
(*                                                                         *)
(* Geometry.  The shapely polygons of the program are modelled on a small  *)
(* rectilinear grid: a polygon is the set of grid cells it covers, a cell  *)
(* is <<column, row>>.  Coordinates are kept in half units, so that the    *)
(* program's tolerance 1.0 is the integer 2.  Every row is one unit high   *)
(* (2 half units) and every column one unit wide, except column 1, which   *)
(* is half a unit wide when the drawing is `thin`: this is what lets a     *)
(* difference leave a sliver narrower than the tolerance, and two shapes   *)
(* face each other across a gap narrower than the tolerance.               *)
(***************************************************************************)
EXTENDS Integers, Sequences, FiniteSets, TLC

GridW == 3
GridH == 3
NumWalls == 3
MaxRuns == 2
MaxCoord == 4
NumRooms == 3
NumRailings == 1
NumFixtures == 2

\* CLOSE_EDGE_TOLERANCE = 1.0, in half units
CLOSE_EDGE_TOLERANCE == 2

\* Python's None where a polygon is expected: a value that is no cell set
NONE == {<<-1, -1>>}

VARIABLES
    thin,            \* input: column 1 of the drawing is half a unit wide
    wall_orig,       \* wall -> the cached value of PlanObject.polygon
    wall_polygon,    \* wall -> Wall._polygon (NONE or a polygon)
    pairs,           \* remove_wall_overlaps: the list the round iterates over
    pairs_to_retry,  \* remove_wall_overlaps: the pending list
    idx,             \* remove_wall_overlaps: position of the for loop
    pc,              \* remove_wall_overlaps: "idle", "for", "forced", "done"
    rounds,          \* number of rounds started by the current call
    fellback,        \* the current call reached the forced fallback
    last,            \* the Wall.remove_overlaps call of the last step, if any
    runs,            \* number of calls made so far
    line1, line2,    \* lines_are_close: the two edges passed
    close,           \* lines_are_close: "None" before the call, then its value
    room_polygon,    \* room -> the cached value of PlanObject.polygon
    rail_polygon,    \* railing -> the cached value of PlanObject.polygon
    openings,        \* wall -> Wall.openings: its doors and windows, in order
    adjacencies,     \* object -> object -> the list of facts (PlanObject.adjacencies)
    opening_rooms,   \* wall -> opening index -> WallOpening.rooms
    room_doors,      \* room -> Room.doors
    room_windows,    \* room -> Room.windows
    fixtures,        \* fixture -> what its container holds and the shape drawn
    fixture_rooms,   \* fixture -> Fixture.rooms
    room_fixtures,   \* room -> Room.fixtures
    inside_runs,     \* number of calls of Floor.find_inside made so far
    failure          \* "None", or the exception that ended the last call

overlapVars == <<wall_orig, wall_polygon, pairs, pairs_to_retry, idx, pc,
                 rounds, fellback, last>>
closeVars == <<line1, line2, close>>
planVars == <<room_polygon, rail_polygon, openings, fixtures>>
adjVars == <<adjacencies, opening_rooms, room_doors, room_windows>>
insideVars == <<fixture_rooms, room_fixtures, inside_runs, failure>>

vars == <<thin, overlapVars, runs, closeVars, planVars, adjVars, insideVars>>

-----------------------------------------------------------------------------
(* Geometry on the grid *)

Cols == 0..(GridW - 1)
Rows == 0..(GridH - 1)
Cells == Cols \X Rows

Min2(a, b) == IF a <= b THEN a ELSE b
Max2(a, b) == IF a >= b THEN a ELSE b

\* x coordinate of the vertical grid line left of column i (half units)
XLine(i) == IF i <= 1 THEN 2 * i ELSE IF thin THEN 2 * i - 1 ELSE 2 * i
\* y coordinate of the horizontal grid line below row j (half units)
YLine(j) == 2 * j

Rect(x1, x2, y1, y2) == {c \in Cells : c[1] \in x1..x2 /\ c[2] \in y1..y2}

\* two cells share a side
SideBySide(c, d) ==
    \/ c[1] = d[1] /\ (c[2] = d[2] + 1 \/ d[2] = c[2] + 1)
    \/ c[2] = d[2] /\ (c[1] = d[1] + 1 \/ d[1] = c[1] + 1)

RECURSIVE Grow(_, _)
Grow(S, R) ==
    LET N == {d \in S \ R : \E c \in R : SideBySide(c, d)}
    IN IF N = {} THEN R ELSE Grow(S, R \cup N)

\* the polygons of a (Multi)Polygon: the side-connected parts of a cell set
Components(S) == {Grow(S, {c}) : c \in S}

\* the least cell of a non-empty cell set, column first
LeastCell(S) ==
    CHOOSE c \in S : \A d \in S : c[1] < d[1] \/ (c[1] = d[1] /\ c[2] <= d[2])

BoxW(S) ==
    LET lo == CHOOSE i \in Cols : (\E c \in S : c[1] = i) /\ \A c \in S : c[1] >= i
        hi == CHOOSE i \in Cols : (\E c \in S : c[1] = i) /\ \A c \in S : c[1] <= i
    IN XLine(hi + 1) - XLine(lo)

BoxH(S) ==
    LET lo == CHOOSE j \in Rows : (\E c \in S : c[2] = j) /\ \A c \in S : c[2] >= j
        hi == CHOOSE j \in Rows : (\E c \in S : c[2] = j) /\ \A c \in S : c[2] <= j
    IN YLine(hi + 1) - YLine(lo)

\* polygon.relate_pattern(other, "2121T1212"): the interiors share area and
\* each polygon has area outside the other (for side-connected cell sets the
\* boundary entries of the pattern follow from these three)
ProperOverlap(A, B) == A \cap B # {} /\ A \ B # {} /\ B \ A # {}

\* The shorter side of the minimum rotated rectangle of a side-connected part.
\* A part inside one column or one row is a rectangle and this is exact; any
\* other part contains a full-size cell, so its value is at least the
\* tolerance, as the minimum rotated rectangle's is.
minimum_rotated_rectangle_dimension(polygon) ==
    Min2(BoxW(polygon), BoxH(polygon))

\* The two polygons of a MultiPolygon in the order the geometry library
\* returns them, which the program does not control: by least cell when
\* ord = 0, the reverse when ord = 1.
PartOrder(parts, ord) ==
    LET p == CHOOSE q \in parts :
                 \A r \in parts : r = q \/ LeastCell(q) = LeastCell(q \cup r)
        q == CHOOSE r \in parts : r # p
    IN IF ord = 0 THEN <<p, q>> ELSE <<q, p>>

subtract_cleanly(this_polygon, that_polygon, tolerance, ord) ==
    LET difference == this_polygon \ that_polygon
        parts == Components(difference)
    IN IF Cardinality(parts) = 1
       THEN difference
       ELSE IF Cardinality(parts) = 2
            THEN LET d == PartOrder(parts, ord)
                     sizes == [k \in 1..2 |->
                                  minimum_rotated_rectangle_dimension(d[k])]
                     min_size == Min2(sizes[1], sizes[2])
                     i == IF sizes[1] = min_size THEN 1 ELSE 2
                 IN IF min_size < tolerance THEN d[3 - i] ELSE NONE
            ELSE NONE

-----------------------------------------------------------------------------
(* Wall.polygon and Wall.remove_overlaps *)

Walls == 0..(NumWalls - 1)

\* Wall.polygon: reading fills _polygon from the cached PlanObject.polygon
ReadPolygon(polys, orig, w) ==
    IF polys[w] = NONE THEN orig[w] ELSE polys[w]

\* a plausible slip: the clean difference of self is stored in the other wall
remove_overlaps_swapped(polys, orig, self, other_wall, clean_overlaps_only, ord) ==
    LET p0 == [w \in DOMAIN polys |->
                  IF w \in {self, other_wall}
                  THEN ReadPolygon(polys, orig, w) ELSE polys[w]]
    IN IF ProperOverlap(p0[self], p0[other_wall])
       THEN LET self_difference ==
                    subtract_cleanly(p0[self], p0[other_wall],
                                     CLOSE_EDGE_TOLERANCE, ord)
            IN IF self_difference # NONE
               THEN [polygon |-> [p0 EXCEPT ![other_wall] = self_difference],
                     result |-> "True"]
               ELSE [polygon |-> p0, result |-> "False"]
       ELSE [polygon |-> p0, result |-> "None"]

\* Wall.remove_overlaps(self, other_wall, clean_overlaps_only): the _polygon
\* cells after the call and the value returned ("True", "False" or "None")
remove_overlaps(polys, orig, self, other_wall, clean_overlaps_only, ord) ==
    LET p0 == [w \in DOMAIN polys |->
                  IF w \in {self, other_wall}
                  THEN ReadPolygon(polys, orig, w) ELSE polys[w]]
    IN IF ProperOverlap(p0[self], p0[other_wall])
       THEN LET self_difference ==
                    subtract_cleanly(p0[self], p0[other_wall],
                                     CLOSE_EDGE_TOLERANCE, ord)
                other_difference ==
                    subtract_cleanly(p0[other_wall], p0[self],
                                     CLOSE_EDGE_TOLERANCE, ord)
            IN IF self_difference # NONE
               THEN [polygon |-> [p0 EXCEPT ![self] = self_difference],
                     result |-> "True"]
               ELSE IF other_difference # NONE
                    THEN [polygon |-> [p0 EXCEPT ![other_wall] = other_difference],
                          result |-> "True"]
                    ELSE IF clean_overlaps_only
                         THEN [polygon |-> p0, result |-> "False"]
                         ELSE [polygon |-> [p0 EXCEPT ![other_wall] = other_difference],
                               result |-> "True"]
       ELSE [polygon |-> p0, result |-> "None"]

-----------------------------------------------------------------------------
(* Floor.remove_wall_overlaps, one step of its loops at a time *)

\* list(combinations(self.walls, 2)) for walls 0..n-1
RECURSIVE CombinationsFrom(_, _, _)
CombinationsFrom(a, b, n) ==
    IF a >= n - 1 THEN <<>>
    ELSE IF b >= n THEN CombinationsFrom(a + 1, a + 2, n)
    ELSE <<<<a, b>>>> \o CombinationsFrom(a, b + 1, n)

Combinations(n) == CombinationsFrom(0, 1, n)

\* The state of one call: s.pc is the position in the method.
OverlapStart(polys) ==
    [pc |-> "for", polygon |-> polys, pairs |-> Combinations(NumWalls),
     retry |-> <<>>, i |-> 1, rounds |-> 1, fellback |-> FALSE,
     last |-> <<>>]

\* the body of "for this_wall, that_wall in pairs"
RoundBody(s, orig, ord) ==
    LET pr == s.pairs[s.i]
        r == remove_overlaps(s.polygon, orig, pr[1], pr[2], TRUE, ord)
    IN [s EXCEPT !.polygon = r.polygon,
                 !.retry = IF r.result = "False"
                           THEN Append(s.retry, pr) ELSE s.retry,
                 !.i = s.i + 1,
                 !.last = <<[self |-> pr[1], other |-> pr[2], clean |-> TRUE,
                             before |-> s.polygon, result |-> r.result]>>]

\* a plausible slip: the pending list is not made the next round's input
AfterRound_KeepPairs(s) ==
    IF Len(s.retry) = 0
    THEN [s EXCEPT !.pc = "done", !.last = <<>>]
    ELSE IF Len(s.retry) = Len(s.pairs)
         THEN [s EXCEPT !.pc = "forced", !.i = 1, !.fellback = TRUE,
                        !.last = <<>>]
         ELSE [s EXCEPT !.retry = <<>>, !.i = 1,
                        !.rounds = s.rounds + 1, !.last = <<>>]

\* the tests after the for loop of a round
AfterRound(s) ==
    IF Len(s.retry) = 0
    THEN [s EXCEPT !.pc = "done", !.last = <<>>]
    ELSE IF Len(s.retry) = Len(s.pairs)
         THEN [s EXCEPT !.pc = "forced", !.i = 1, !.fellback = TRUE,
                        !.last = <<>>]
         ELSE [s EXCEPT !.pairs = s.retry, !.retry = <<>>, !.i = 1,
                        !.rounds = s.rounds + 1, !.last = <<>>]

\* the body of "for this_wall, that_wall in pairs_to_retry"
ForcedBody(s, orig, ord) ==
    LET pr == s.retry[s.i]
        r == remove_overlaps(s.polygon, orig, pr[1], pr[2], FALSE, ord)
    IN [s EXCEPT !.polygon = r.polygon, !.i = s.i + 1,
                 !.last = <<[self |-> pr[1], other |-> pr[2], clean |-> FALSE,
                             before |-> s.polygon, result |-> r.result]>>]

OverlapStep(s, orig, ord) ==
    IF s.pc = "for" /\ s.i <= Len(s.pairs) THEN RoundBody(s, orig, ord)
    ELSE IF s.pc = "for" THEN AfterRound(s)
    ELSE IF s.pc = "forced" /\ s.i <= Len(s.retry) THEN ForcedBody(s, orig, ord)
    ELSE [s EXCEPT !.pc = "done", !.last = <<>>]

\* the whole call, for the callers that run it to completion
RECURSIVE OverlapRun(_, _, _)
OverlapRun(s, orig, ord) ==
    IF s.pc = "done" THEN s ELSE OverlapRun(OverlapStep(s, orig, ord), orig, ord)

remove_wall_overlaps(polys, orig, ord) ==
    OverlapRun(OverlapStart(polys), orig, ord).polygon

-----------------------------------------------------------------------------
(* The wall drawings of the bounded model: the horizontal bands of full    *)
(* width and the vertical strips of the junction column, all through the   *)
(* junction cell <<1, 1>>.                                                 *)

RowRanges == {r \in Rows \X Rows : r[1] <= 1 /\ 1 <= r[2]}
WallShapes ==
    {Rect(0, GridW - 1, r[1], r[2]) : r \in RowRanges}
        \cup {Rect(1, 1, r[1], r[2]) : r \in RowRanges}

OverlapState ==
    [pc |-> pc, polygon |-> wall_polygon, pairs |-> pairs,
     retry |-> pairs_to_retry, i |-> idx, rounds |-> rounds,
     fellback |-> fellback, last |-> last]

SetOverlapState(s) ==
    /\ pc' = s.pc
    /\ wall_polygon' = s.polygon
    /\ pairs' = s.pairs
    /\ pairs_to_retry' = s.retry
    /\ idx' = s.i
    /\ rounds' = s.rounds
    /\ fellback' = s.fellback
    /\ last' = s.last

\* no lines_are_close call is modelled
NoClose == line1 = <<>> /\ line2 = <<>> /\ close = "None"

Rooms == 0..(NumRooms - 1)
Railings == 0..(NumRailings - 1)
Fixtures == 0..(NumFixtures - 1)

\* the objects that hold an adjacency table
Objects == ({"Room"} \X Rooms) \cup ({"Wall"} \X Walls) \cup ({"Railing"} \X Railings)

\* PlanObject.__init__, Room.__init__, WallOpening.__init__: nothing found yet
NoAdjacencies ==
    /\ adjacencies = [a \in Objects |-> [b \in Objects |-> <<>>]]
    /\ opening_rooms = [w \in Walls |-> [k \in DOMAIN openings[w] |-> <<>>]]
    /\ room_doors = [r \in Rooms |-> {}]
    /\ room_windows = [r \in Rooms |-> {}]

\* Fixture.__init__, Room.__init__: no fixture has been placed in a room
NoInside ==
    /\ fixture_rooms = [f \in Fixtures |-> {}]
    /\ room_fixtures = [r \in Rooms |-> {}]
    /\ inside_runs = 0
    /\ failure = "None"

\* a floor whose rooms, railings, openings and fixtures play no part
NoPlan ==
    /\ room_polygon = [r \in Rooms |-> {}]
    /\ rail_polygon = [k \in Railings |-> {}]
    /\ openings = [w \in Walls |-> <<>>]
    /\ fixtures = [f \in Fixtures |-> [kind |-> "Path", polygon |-> {}]]
    /\ NoAdjacencies
    /\ NoInside

\* Floor.remove_wall_overlaps has not been called
OverlapIdle ==
    /\ wall_polygon = [w \in Walls |-> NONE]
    /\ pairs = <<>>
    /\ pairs_to_retry = <<>>
    /\ idx = 1
    /\ pc = "idle"
    /\ rounds = 0
    /\ fellback = FALSE
    /\ last = <<>>

InitOverlap ==
    /\ thin \in BOOLEAN
    /\ wall_orig \in [Walls -> WallShapes]
    /\ OverlapIdle
    /\ runs = 0
    /\ NoClose
    /\ NoPlan

\* floor.remove_wall_overlaps() is called
CallRemoveWallOverlaps ==
    /\ pc \in {"idle", "done"}
    /\ runs < MaxRuns
    /\ runs' = runs + 1
    /\ SetOverlapState(OverlapStart(wall_polygon))
    /\ UNCHANGED <<thin, wall_orig, closeVars, planVars, adjVars, insideVars>>

\* one iteration of the round's for loop
RoundPair ==
    /\ pc = "for" /\ idx <= Len(pairs)
    /\ \E ord \in {0, 1} : SetOverlapState(OverlapStep(OverlapState, wall_orig, ord))
    /\ UNCHANGED <<thin, wall_orig, runs, closeVars, planVars, adjVars, insideVars>>

\* the tests after the for loop
RoundEnd ==
    /\ pc = "for" /\ idx > Len(pairs)
    /\ SetOverlapState(OverlapStep(OverlapState, wall_orig, 0))
    /\ UNCHANGED <<thin, wall_orig, runs, closeVars, planVars, adjVars, insideVars>>

\* one iteration of the fallback loop
ForcedPair ==
    /\ pc = "forced" /\ idx <= Len(pairs_to_retry)
    /\ \E ord \in {0, 1} : SetOverlapState(OverlapStep(OverlapState, wall_orig, ord))
    /\ UNCHANGED <<thin, wall_orig, runs, closeVars, planVars, adjVars, insideVars>>

\* the fallback loop is over: the method returns
ForcedEnd ==
    /\ pc = "forced" /\ idx > Len(pairs_to_retry)
    /\ SetOverlapState(OverlapStep(OverlapState, wall_orig, 0))
    /\ UNCHANGED <<thin, wall_orig, runs, closeVars, planVars, adjVars, insideVars>>

NextOverlap ==
    \/ CallRemoveWallOverlaps
    \/ RoundPair
    \/ RoundEnd
    \/ ForcedPair
    \/ ForcedEnd

SpecOverlap == InitOverlap /\ [][NextOverlap]_vars

-----------------------------------------------------------------------------
(* lines_are_close on axis-parallel edges.  A point is <<x, y>> in half    *)
(* units, an edge the pair of its end points (LineString.boundary).        *)

Coords == 0..MaxCoord
Points == Coords \X Coords
Edges == {e \in Points \X Points : e[1][1] = e[2][1] \/ e[1][2] = e[2][2]}

\* LineString.length > 0
HasLength(e) == e[1] # e[2]

\* how far v lies outside the interval lo..hi
Outside(v, lo, hi) == IF v < lo THEN lo - v ELSE IF v > hi THEN v - hi ELSE 0

\* the square of edge.distance(point)
DistanceSq(e, pt) ==
    LET dx == Outside(pt[1], Min2(e[1][1], e[2][1]), Max2(e[1][1], e[2][1]))
        dy == Outside(pt[2], Min2(e[1][2], e[2][2]), Max2(e[1][2], e[2][2]))
    IN dx * dx + dy * dy

\* edge.distance(point) < tolerance
Near(e, pt, tolerance) == DistanceSq(e, pt) < tolerance * tolerance

\* the four (edge, point) pairs of lines_are_close
ClosePairs(l1, l2) == <<<<l1, l2[1]>>, <<l1, l2[2]>>, <<l2, l1[1]>>, <<l2, l1[2]>>>>

\* the for loop of lines_are_close from pair k on
RECURSIVE CloseScan(_, _, _, _)
CloseScan(prs, k, first_pair_found, tolerance) ==
    IF k > Len(prs) THEN FALSE
    ELSE IF Near(prs[k][1], prs[k][2], tolerance)
         THEN IF first_pair_found THEN TRUE
              ELSE CloseScan(prs, k + 1, TRUE, tolerance)
         ELSE CloseScan(prs, k + 1, first_pair_found, tolerance)

lines_are_close(l1, l2, tolerance) ==
    IF HasLength(l1) /\ HasLength(l2)
    THEN CloseScan(ClosePairs(l1, l2), 1, FALSE, tolerance)
    ELSE FALSE

InitClose ==
    /\ thin = FALSE
    /\ wall_orig = [w \in Walls |-> {}]
    /\ OverlapIdle
    /\ runs = 0
    /\ line1 \in Edges
    /\ line2 \in Edges
    /\ close = "None"
    /\ NoPlan

CallLinesAreClose ==
    /\ close = "None"
    /\ close' = IF lines_are_close(line1, line2, CLOSE_EDGE_TOLERANCE)
                THEN "True" ELSE "False"
    /\ UNCHANGED <<thin, overlapVars, runs, line1, line2, planVars, adjVars, insideVars>>

NextClose == CallLinesAreClose

SpecClose == InitClose /\ [][NextClose]_vars

\* the number of (edge, opposite end point) checks below the tolerance
NearChecks(l1, l2) ==
    Cardinality({k \in 1..4 : Near(ClosePairs(l1, l2)[k][1],
                                   ClosePairs(l1, l2)[k][2],
                                   CLOSE_EDGE_TOLERANCE)})

Horizontal(e) == e[1][2] = e[2][2] /\ e[1][1] # e[2][1]
Vertical(e) == e[1][1] = e[2][1] /\ e[1][2] # e[2][2]
EdgeLength(e) ==
    Max2(e[1][1], e[2][1]) - Min2(e[1][1], e[2][1])
        + Max2(e[1][2], e[2][2]) - Min2(e[1][2], e[2][2])

\* two perpendicular edges, each at least twice the tolerance long, that
\* have exactly one point in common: they are near each other around that
\* point only
TouchAtOnePoint(l1, l2) ==
    /\ \/ Horizontal(l1) /\ Vertical(l2)
       \/ Vertical(l1) /\ Horizontal(l2)
    /\ EdgeLength(l1) >= 2 * CLOSE_EDGE_TOLERANCE
    /\ EdgeLength(l2) >= 2 * CLOSE_EDGE_TOLERANCE
    /\ \E pt \in Points : DistanceSq(l1, pt) = 0 /\ DistanceSq(l2, pt) = 0

\* C5: lines_are_close reports two edges close only when at least two of the
\* four distance checks are below the tolerance, and never reports close two
\* edges that merely touch at one point.
C5_CloseNeedsTwoNotTouch ==
    /\ close = "True" => NearChecks(line1, line2) >= 2
    /\ (close # "None" /\ TouchAtOnePoint(line1, line2)) => close = "False"

-----------------------------------------------------------------------------
(* Boundaries, intersections and distances of polygons on the grid *)

\* A unit piece of a grid line is <<i, j, d>>: for d = 0 the piece of the
\* horizontal line between rows j - 1 and j that spans column i, for d = 1
\* the piece of the vertical line between columns i - 1 and i that spans row j.
UnitPieces ==
    {<<i, j, 0>> : i \in Cols, j \in 0..GridH} \cup {<<i, j, 1>> : i \in 0..GridW, j \in Rows}

\* the two cells (or places outside the grid) on either side of a piece
Before(u) == IF u[3] = 0 THEN <<u[1], u[2] - 1>> ELSE <<u[1] - 1, u[2]>>
After(u) == <<u[1], u[2]>>

\* the piece lies on the boundary of S, with S on its `After` side or not
OnBoundary(S, u, inside_after) ==
    IF inside_after THEN After(u) \in S /\ Before(u) \notin S
    ELSE Before(u) \in S /\ After(u) \notin S

\* the next piece along the same grid line
Along(u, n) == IF u[3] = 0 THEN <<u[1] + n, u[2], 0>> ELSE <<u[1], u[2] + n, 1>>

\* the end points of the run of n pieces that starts with u
RunEdge(u, n) ==
    IF u[3] = 0
    THEN <<<<XLine(u[1]), YLine(u[2])>>, <<XLine(u[1] + n), YLine(u[2])>>>>
    ELSE <<<<XLine(u[1]), YLine(u[2])>>, <<XLine(u[1]), YLine(u[2] + n)>>>>

\* the pieces at which a straight run of the boundary of S starts, each with
\* the side S lies on
RunStarts(S) ==
    {x \in UnitPieces \X BOOLEAN :
        OnBoundary(S, x[1], x[2]) /\ ~OnBoundary(S, Along(x[1], -1), x[2])}

\* the number of pieces of the run that starts with u
RunLength(S, u, side) ==
    CHOOSE n \in 1..(GridW + GridH) :
        /\ ~OnBoundary(S, Along(u, n), side)
        /\ \A k \in 1..(n - 1) : OnBoundary(S, Along(u, k), side)

\* polygon_edges(polygon): the straight edges of the exterior ring, each a
\* maximal run of boundary pieces with the polygon on one side
polygon_edges(S) ==
    {RunEdge(x[1], RunLength(S, x[1], x[2])) : x \in RunStarts(S)}

\* PlanObject.num_edges
num_edges(S) == Cardinality(polygon_edges(S))

\* the boundary pieces two polygons share (one on either side)
SharedPieces(A, B) ==
    {u \in UnitPieces :
        \/ Before(u) \in A /\ After(u) \in B
        \/ Before(u) \in B /\ After(u) \in A}

\* the corners of a cell, as grid points
Corners(c) == {<<c[1], c[2]>>, <<c[1] + 1, c[2]>>, <<c[1], c[2] + 1>>, <<c[1] + 1, c[2] + 1>>}
PieceEnds(u) == {<<u[1], u[2]>>, IF u[3] = 0 THEN <<u[1] + 1, u[2]>> ELSE <<u[1], u[2] + 1>>}

\* the grid points at the corners of the cells of S
CornersOf(S) == UNION {Corners(c) : c \in S}

\* the grid points where the two polygons meet away from any shared piece
LonePoints(A, B) ==
    (CornersOf(A) \cap CornersOf(B)) \ UNION {PieceEnds(u) : u \in SharedPieces(A, B)}

\* isinstance(intersection, LineString) or isinstance(intersection,
\* MultiLineString): the polygons share no area, share boundary, and meet
\* nowhere else
IntersectionIsLines(A, B) ==
    A \cap B = {} /\ SharedPieces(A, B) # {} /\ LonePoints(A, B) = {}

\* the gap between the intervals lo1..hi1 and lo2..hi2
Gap(lo1, hi1, lo2, hi2) ==
    IF hi1 < lo2 THEN lo2 - hi1 ELSE IF hi2 < lo1 THEN lo1 - hi2 ELSE 0

CellDistanceSq(c, d) ==
    LET dx == Gap(XLine(c[1]), XLine(c[1] + 1), XLine(d[1]), XLine(d[1] + 1))
        dy == Gap(YLine(c[2]), YLine(c[2] + 1), YLine(d[2]), YLine(d[2] + 1))
    IN dx * dx + dy * dy

\* polygon.distance(other) <= limit, or < limit when strict (non-empty polygons)
DistanceWithin(A, B, limit, strict) ==
    \E c \in A : \E d \in B :
        IF strict THEN CellDistanceSq(c, d) < limit * limit
        ELSE CellDistanceSq(c, d) <= limit * limit

\* PlanObject._is_close
is_close(A, B) ==
    /\ DistanceWithin(A, B, CLOSE_EDGE_TOLERANCE, FALSE)
    /\ \E edges \in {<<polygon_edges(A), polygon_edges(B)>>} :
           \E self_edge \in edges[1] : \E other_edge \in edges[2] :
               lines_are_close(self_edge, other_edge, CLOSE_EDGE_TOLERANCE)

-----------------------------------------------------------------------------
(* Properties of overlap resolution *)

\* what a read of wall w's polygon property returns in the current state
Poly(w) == ReadPolygon(wall_polygon, wall_orig, w)

WallPairs == {pr \in Walls \X Walls : pr[1] < pr[2]}
NumPairs == Cardinality(WallPairs)

SeqRange(q) == {q[k] : k \in 1..Len(q)}

\* the pending set handed to the forced fallback by the current call
ForcedSet == IF fellback THEN SeqRange(pairs_to_retry) ELSE {}

\* C1: when remove_wall_overlaps has completed, no two walls satisfy the
\* proper-overlap pattern, except the pairs of the stagnated pending set
\* handed to the forced fallback.
C1_NoOverlapOnCompletion ==
    pc = "done" =>
        \A pr \in WallPairs \ ForcedSet :
            ~ProperOverlap(Poly(pr[1]), Poly(pr[2]))

\* C2: every round ends in one of three ways: nothing pending (return),
\* every pair of the round pending (forced fallback), or a strictly shorter
\* pending list that becomes the next round's input; the number of rounds is
\* at most the number of unordered wall pairs plus one, and every step of a
\* call strictly lowers what is left of it, so every call returns.
C2_RoundEnds ==
    (pc = "for" /\ idx > Len(pairs)) =>
        \/ pc' = "done" /\ Len(pairs_to_retry) = 0
        \/ pc' = "forced" /\ pairs_to_retry = pairs /\ pairs_to_retry' = pairs
        \/ /\ pc' = "for"
           /\ pairs' = pairs_to_retry
           /\ 0 < Len(pairs') /\ Len(pairs') < Len(pairs)
           /\ pairs_to_retry' = <<>>
           /\ rounds' = rounds + 1

\* what is left of a call: it is a natural number, 0 when the call has returned
Remaining ==
    IF pc = "for"
    THEN (Len(pairs) + 1) * (NumPairs + 2) + (Len(pairs) + 1 - idx)
    ELSE IF pc = "forced" THEN Len(pairs_to_retry) + 2 - idx
    ELSE 0

C2_Decreases == pc \in {"for", "forced"} => (Remaining' < Remaining)

C2_Terminates ==
    /\ [](pc # "idle" => rounds <= NumPairs + 1)
    /\ [](Remaining >= 0 /\ (Remaining = 0 <=> pc \in {"idle", "done"}))
    /\ [][C2_RoundEnds]_vars
    /\ [][C2_Decreases]_vars

\* a call that went through more than one round and then the fallback
C2_Witness == pc = "done" /\ rounds >= 2 /\ fellback

\* C4: a forced call on a pair that still overlaps leaves one wall of the
\* pair trimmed by the other: a read of its polygon lies inside its
\* difference against the other wall.
C4_ForcedTrim ==
    (last # <<>> /\ ~last[1].clean /\ last[1].result = "True") =>
        LET a == last[1].self
            b == last[1].other
            A == ReadPolygon(last[1].before, wall_orig, a)
            B == ReadPolygon(last[1].before, wall_orig, b)
        IN \/ Poly(a) \subseteq A \ B /\ Poly(b) = B
           \/ Poly(b) \subseteq B \ A /\ Poly(a) = A

\* A minus B is a clean result: one polygon, or two of which the smaller is
\* a sliver below the tolerance
CleanDifference(A, B) ==
    LET parts == Components(A \ B)
    IN \/ Cardinality(parts) = 1
       \/ /\ Cardinality(parts) = 2
          /\ \E p \in parts :
                 BoxW(p) < CLOSE_EDGE_TOLERANCE \/ BoxH(p) < CLOSE_EDGE_TOLERANCE

\* C10: when A properly overlaps B and A minus B is a single polygon,
\* A.remove_overlaps(B) sets A's polygon to A minus B, returns True and
\* leaves B's and every other wall's polygon as it was; B's polygon changes
\* only in calls where A minus B is not a clean result.
C10_CleanTrimFrame ==
    last # <<>> =>
        LET a == last[1].self
            b == last[1].other
            A == ReadPolygon(last[1].before, wall_orig, a)
            B == ReadPolygon(last[1].before, wall_orig, b)
        IN /\ (ProperOverlap(A, B) /\ Cardinality(Components(A \ B)) = 1) =>
                  /\ last[1].result = "True"
                  /\ Poly(a) = A \ B
                  /\ Poly(a) \cap B = {}
                  /\ Poly(b) = B
                  /\ \A w \in Walls \ {a, b} : wall_polygon[w] = last[1].before[w]
           /\ Poly(b) # B => (ProperOverlap(A, B) /\ ~CleanDifference(A, B))

\* a clean trim of A by a wall B that keeps its polygon
C10_Witness ==
    /\ last # <<>>
    /\ LET a == last[1].self
           b == last[1].other
           A == ReadPolygon(last[1].before, wall_orig, a)
           B == ReadPolygon(last[1].before, wall_orig, b)
       IN /\ ProperOverlap(A, B)
          /\ Cardinality(Components(A \ B)) = 1
          /\ Poly(a) = A \ B /\ Poly(a) # A
          /\ Poly(b) = B

-----------------------------------------------------------------------------
(* The adjacency engine: PlanObject.find_adjacencies, Wall.add_adjacency,
   WallOpening.check_adjacencies and Floor.find_adjacencies *)

\* the fact recorded for two objects that are close without sharing boundary
\* (Python's None); a shared boundary is recorded as the set of its pieces
CLOSE == {<<-1, -1, -1>>}

\* what one call has found so far
Found ==
    [adj |-> adjacencies, orooms |-> opening_rooms,
     rdoors |-> room_doors, rwindows |-> room_windows]

\* the polygon property of a room, wall or railing
PolygonOf(polys, obj) ==
    IF obj[1] = "Room" THEN room_polygon[obj[2]]
    ELSE IF obj[1] = "Wall" THEN ReadPolygon(polys, wall_orig, obj[2])
    ELSE rail_polygon[obj[2]]

\* Door.add_adjacency and Window.add_adjacency for opening k of wall w
opening_add_adjacency(st, w, k, room) ==
    IF openings[w][k].type = "Door"
    THEN [st EXCEPT !.orooms[w][k] = Append(@, room),
                    !.rdoors[room] = @ \cup {<<w, k>>}]
    ELSE [st EXCEPT !.orooms[w][k] = Append(@, room),
                    !.rwindows[room] = @ \cup {<<w, k>>}]

\* WallOpening.check_adjacencies
check_adjacencies(st, w, k, room) ==
    IF DistanceWithin(openings[w][k].polygon, room_polygon[room],
                      CLOSE_EDGE_TOLERANCE, TRUE)
    THEN opening_add_adjacency(st, w, k, room)
    ELSE st

\* the loop over self.openings in Wall.add_adjacency, from opening k on
RECURSIVE CheckOpenings(_, _, _, _)
CheckOpenings(st, w, k, room) ==
    IF k > Len(openings[w]) THEN st
    ELSE CheckOpenings(check_adjacencies(st, w, k, room), w, k + 1, room)

\* a plausible slip: a wall that does not pass its rooms on to its openings
add_adjacency_plain(st, self, object, info) ==
    [st EXCEPT !.adj[self][object] = Append(@, info)]

\* PlanObject.add_adjacency, with the override of Wall
add_adjacency(st, self, object, info) ==
    LET added == [st EXCEPT !.adj[self][object] = Append(@, info)]
    IN IF self[1] = "Wall" /\ object[1] = "Room"
       THEN CheckOpenings(added, self[2], 1, object[2])
       ELSE added

\* a plausible slip: the close fact is recorded on one side only
find_adjacency_oneway(st, polys, self, other) ==
    LET A == PolygonOf(polys, self)
        B == PolygonOf(polys, other)
    IN IF IntersectionIsLines(A, B)
       THEN add_adjacency(add_adjacency(st, self, other, SharedPieces(A, B)),
                          other, self, SharedPieces(A, B))
       ELSE IF is_close(A, B)
            THEN add_adjacency(st, self, other, CLOSE)
            ELSE st

\* the body of the loop of PlanObject.find_adjacencies for one other object
find_adjacency(st, polys, self, other) ==
    LET A == PolygonOf(polys, self)
        B == PolygonOf(polys, other)
    IN IF IntersectionIsLines(A, B)
       THEN add_adjacency(add_adjacency(st, self, other, SharedPieces(A, B)),
                          other, self, SharedPieces(A, B))
       ELSE IF is_close(A, B)
            THEN add_adjacency(add_adjacency(st, self, other, CLOSE),
                               other, self, CLOSE)
            ELSE st

\* PlanObject.find_adjacencies over other_objects from position k on
RECURSIVE find_adjacencies(_, _, _, _, _)
find_adjacencies(st, polys, self, other_objects, k) ==
    IF k > Len(other_objects) THEN st
    ELSE find_adjacencies(find_adjacency(st, polys, self, other_objects[k]),
                          polys, self, other_objects, k + 1)

\* the objects of one kind with indices from..(n - 1), in floor order
ObjectList(kind, from, n) == [k \in 1..(n - from) |-> <<kind, from + k - 1>>]

\* the loop over the rooms in Floor.find_adjacencies, from room_index on
RECURSIVE FloorRooms(_, _, _)
FloorRooms(st, polys, room_index) ==
    IF room_index >= NumRooms THEN st
    ELSE LET room == <<"Room", room_index>>
             a == find_adjacencies(st, polys, room, ObjectList("Wall", 0, NumWalls), 1)
             b == find_adjacencies(a, polys, room, ObjectList("Railing", 0, NumRailings), 1)
             c == find_adjacencies(b, polys, room,
                                   ObjectList("Room", room_index + 1, NumRooms), 1)
         IN FloorRooms(c, polys, room_index + 1)

\* the shapes drawn on the floors examined: two crossing walls, three rooms
\* in the corners, a straight and an L-shaped railing
AdjWallShapes == {Rect(1, 1, 0, 2), Rect(0, 2, 1, 1)}
RoomShapes == {{<<0, 0>>}, {<<2, 0>>}, {<<0, 2>>}}
RailShapes == {Rect(0, 2, 2, 2), Rect(0, 2, 2, 2) \cup {<<2, 1>>}}
DoorCells == {<<1, 0>>, <<1, 1>>}

\* Wall.__init__: the doors and windows found among the children of a wall
\* drawn as W, each one cell of the wall
OpeningLists(W) ==
    {<<>>, <<[type |-> "Door", polygon |-> {<<1, 1>>}],
             [type |-> "Window", polygon |-> {<<1, 1>>}]>>}
    \cup {<<[type |-> t, polygon |-> {c}]>> :
             t \in {"Door", "Window"}, c \in W \cap DoorCells}

\* a floor without fixtures
NoFixtures == fixtures = [f \in Fixtures |-> [kind |-> "Path", polygon |-> {}]]

InitAdj ==
    /\ thin \in BOOLEAN
    /\ wall_orig \in [Walls -> AdjWallShapes]
    /\ OverlapIdle
    /\ runs = 0
    /\ NoClose
    /\ room_polygon \in [Rooms -> RoomShapes]
    /\ rail_polygon \in [Railings -> RailShapes]
    /\ \E o \in OpeningLists(wall_orig[0]) :
           openings = [w \in Walls |-> IF w = 0 THEN o ELSE <<>>]
    /\ NoFixtures
    /\ NoAdjacencies
    /\ NoInside

\* Floor.find_adjacencies
CallFindAdjacencies ==
    /\ runs < MaxRuns
    /\ pc \in {"idle", "done"}
    /\ failure = "None"
    /\ \E ord \in {0, 1} :
           \E polys \in {remove_wall_overlaps(wall_polygon, wall_orig, ord)} :
           \E st \in {FloorRooms(Found, polys, 0)} :
              /\ wall_polygon' = polys
              /\ adjacencies' = st.adj
              /\ opening_rooms' = st.orooms
              /\ room_doors' = st.rdoors
              /\ room_windows' = st.rwindows
    /\ runs' = runs + 1
    /\ UNCHANGED <<thin, wall_orig, pairs, pairs_to_retry, idx, pc, rounds,
                   fellback, last, closeVars, planVars, insideVars>>

NextAdj == CallFindAdjacencies

SpecAdj == InitAdj /\ [][NextAdj]_vars

-----------------------------------------------------------------------------
(* Properties of the adjacency engine *)

\* C3: in every state reached by any number of calls of find_adjacencies,
\* the table of A has an entry for B exactly if the table of B has one for A,
\* and the two lists of facts are equal, fact by fact and in the same order.
C3_Symmetric ==
    \A a \in Objects : \A b \in Objects :
        /\ (adjacencies[a][b] # <<>>) <=> (adjacencies[b][a] # <<>>)
        /\ adjacencies[a][b] = adjacencies[b][a]

\* after two calls one pair holds two facts of shared boundary and another
\* pair holds the fact of being close
C3_Witness ==
    /\ runs = 2
    /\ \E a \in Objects : \E b \in Objects :
           Len(adjacencies[a][b]) = 2 /\ adjacencies[a][b][1] # CLOSE
    /\ \E a \in Objects : \E b \in Objects :
           adjacencies[a][b] # <<>> /\ adjacencies[a][b][1] = CLOSE

\* the doors of the floor, each named by its wall and its place among the
\* openings of that wall
Doors ==
    {d \in Walls \X (1..2) : d[2] \in DOMAIN openings[d[1]]
                              /\ openings[d[1]][d[2]].type = "Door"}

\* the rooms whose polygon lies below the tolerance from the opening
NearRooms(d) ==
    {r \in Rooms : DistanceWithin(openings[d[1]][d[2]].polygon, room_polygon[r],
                                  CLOSE_EDGE_TOLERANCE, TRUE)}

\* the wall of the opening holds an adjacency with the room
WallAdjacent(d, r) == adjacencies[<<"Wall", d[1]>>][<<"Room", r>>] # <<>>

\* the opening lists exactly the rooms near it, and they list it
DoorJoins(d) ==
    /\ Len(opening_rooms[d[1]][d[2]]) = 2
    /\ SeqRange(opening_rooms[d[1]][d[2]]) = NearRooms(d)
    /\ \A r \in NearRooms(d) : d \in room_doors[r]

\* C6: after Floor.find_adjacencies, every door whose polygon lies within
\* the tolerance of exactly two room polygons has those two rooms as its
\* room list, of length 2, and the door set of each of them contains the door.
C6_DoorOfTwoRooms ==
    runs >= 1 =>
        \A d \in Doors : Cardinality(NearRooms(d)) = 2 => DoorJoins(d)

\* C6, amended: after the first call of Floor.find_adjacencies, every door
\* whose polygon lies below the tolerance from exactly two room polygons, and
\* whose wall holds an adjacency with both of those rooms, has those two rooms
\* as its room list, of length 2, and the door set of each contains the door.
C6_DoorOfAdjacentWall ==
    runs = 1 =>
        \A d \in Doors :
            (Cardinality(NearRooms(d)) = 2 /\ \A r \in NearRooms(d) : WallAdjacent(d, r))
                => DoorJoins(d)

\* a door near two rooms, in a wall adjacent to both, after the first call
C6_Witness ==
    /\ runs = 1
    /\ \E d \in Doors :
           /\ Cardinality(NearRooms(d)) = 2
           /\ \A r \in NearRooms(d) : WallAdjacent(d, r)
           /\ DoorJoins(d)

\* the walls and railings of the floor
Dividers == ({"Wall"} \X Walls) \cup ({"Railing"} \X Railings)

\* C8: a wall or railing whose polygon does not have exactly 4 edges takes
\* part in no adjacency check: no adjacency fact involves it.
C8_DegenerateNotChecked ==
    \A d \in Dividers :
        num_edges(PolygonOf(wall_polygon, d)) # 4
            => \A o \in Objects : adjacencies[d][o] = <<>> /\ adjacencies[o][d] = <<>>

-----------------------------------------------------------------------------
(* Fixtures: Fixture.polygon, Fixture.find_rooms and Floor.find_inside *)

\* What the container of a fixture holds: "Polygon", "Rect", "Circle" or
\* "Path" for the first element of its first Group child, "Other" for any
\* other element there, "NoGroup" when the container has no Group child.

\* Fixture.polygon with Fixture.polygon_element: the exception raised, or the
\* geometry built and whether it has an interior of dimension 2
fixture_polygon(f) ==
    IF fixtures[f].kind = "NoGroup"
    THEN [raised |-> "Boundary polygon not found", areal |-> FALSE, cells |-> {}]
    ELSE IF fixtures[f].kind \in {"Polygon", "Rect", "Circle"}
    THEN [raised |-> "None", areal |-> TRUE, cells |-> fixtures[f].polygon]
    ELSE IF fixtures[f].kind = "Path"
    THEN [raised |-> "None", areal |-> FALSE, cells |-> fixtures[f].polygon]
    ELSE [raised |-> "Can't create polygon from", areal |-> FALSE, cells |-> {}]

\* relate_pattern(room.polygon, "2********"): the interiors share an area
InteriorsOverlap(geometry, room) ==
    geometry.areal /\ geometry.cells \cap room_polygon[room] # {}

\* what one call of Floor.find_inside has done so far
Placed ==
    [frooms |-> fixture_rooms, rfixtures |-> room_fixtures, failure |-> "None"]

\* Fixture.add_room
add_room(st, f, room) ==
    [st EXCEPT !.frooms[f] = @ \cup {room}, !.rfixtures[room] = @ \cup {f}]

\* a plausible slip: the scan goes on after a match
RECURSIVE find_rooms_all(_, _, _)
find_rooms_all(st, f, k) ==
    IF k >= NumRooms THEN st
    ELSE IF fixture_polygon(f).raised # "None"
    THEN [st EXCEPT !.failure = fixture_polygon(f).raised]
    ELSE IF InteriorsOverlap(fixture_polygon(f), k)
    THEN find_rooms_all(add_room(st, f, k), f, k + 1)
    ELSE find_rooms_all(st, f, k + 1)

\* Fixture.find_rooms: the loop over the rooms from room k on
RECURSIVE find_rooms(_, _, _)
find_rooms(st, f, k) ==
    IF k >= NumRooms THEN st
    ELSE IF fixture_polygon(f).raised # "None"
    THEN [st EXCEPT !.failure = fixture_polygon(f).raised]
    ELSE IF InteriorsOverlap(fixture_polygon(f), k)
    THEN add_room(st, f, k)
    ELSE find_rooms(st, f, k + 1)

\* Floor.find_inside: the loop over the fixtures from fixture f on; an
\* exception ends it where it is raised
RECURSIVE find_inside(_, _)
find_inside(st, f) ==
    IF f >= NumFixtures \/ st.failure # "None" THEN st
    ELSE find_inside(find_rooms(st, f, 0), f + 1)

\* the fixtures drawn on the floors examined
FixtureChoices ==
    {[kind |-> "Polygon", polygon |-> {<<0, 0>>}],
     [kind |-> "Polygon", polygon |-> Rect(0, 2, 0, 0)],
     [kind |-> "Rect", polygon |-> {<<2, 0>>}],
     [kind |-> "Circle", polygon |-> {<<0, 2>>}],
     [kind |-> "Path", polygon |-> Rect(0, 2, 0, 0)],
     [kind |-> "NoGroup", polygon |-> {}],
     [kind |-> "Other", polygon |-> {<<0, 0>>}]}

InitInside ==
    /\ thin = FALSE
    /\ wall_orig = [w \in Walls |-> Rect(1, 1, 0, 2)]
    /\ OverlapIdle
    /\ runs = 0
    /\ NoClose
    /\ room_polygon \in [Rooms -> RoomShapes]
    /\ rail_polygon = [k \in Railings |-> Rect(0, 2, 2, 2)]
    /\ openings = [w \in Walls |-> IF w = 0
                                   THEN <<[type |-> "Door", polygon |-> {<<1, 0>>}]>>
                                   ELSE <<>>]
    /\ fixtures \in [Fixtures -> FixtureChoices]
    /\ NoAdjacencies
    /\ NoInside

\* Floor.find_inside
CallFindInside ==
    /\ inside_runs < MaxRuns
    /\ failure = "None"
    /\ \E st \in {find_inside(Placed, 0)} :
           /\ fixture_rooms' = st.frooms
           /\ room_fixtures' = st.rfixtures
           /\ failure' = st.failure
    /\ inside_runs' = inside_runs + 1
    /\ UNCHANGED <<thin, overlapVars, runs, closeVars, planVars, adjVars>>

NextInside == CallFindAdjacencies \/ CallFindInside

SpecInside == InitInside /\ [][NextInside]_vars

-----------------------------------------------------------------------------
(* Properties of fixture containment *)

\* the rooms whose interior the geometry of the fixture overlaps
Matching(f) ==
    {r \in Rooms : fixture_polygon(f).raised = "None"
                   /\ InteriorsOverlap(fixture_polygon(f), r)}

\* the room with the lowest floor index among R
Lowest(R) == CHOOSE r \in R : \A q \in R : r <= q

\* C7: after Floor.find_inside, however often it has run, the room set of a
\* fixture is empty if no room matches the containment pattern and otherwise
\* holds exactly the matching room with the lowest floor index, whose fixture
\* set contains the fixture.
C7_FirstMatchWins ==
    (inside_runs >= 1 /\ failure = "None") =>
        \A f \in Fixtures :
            /\ fixture_rooms[f] = IF Matching(f) = {} THEN {} ELSE {Lowest(Matching(f))}
            /\ \A r \in Rooms : f \in room_fixtures[r] <=> r \in fixture_rooms[f]

\* find_inside has run twice and a fixture that spans two rooms is in the first
C7_Witness ==
    /\ inside_runs = 2
    /\ failure = "None"
    /\ \E f \in Fixtures : Cardinality(Matching(f)) = 2 /\ fixture_rooms[f] = {0}

\* C9: when a fixture whose geometry cannot be built makes processing fail,
\* no fixture-room link, adjacency fact or opening-room link remains.
C9_NoPartialModel ==
    failure # "None" =>
        /\ \A f \in Fixtures : fixture_rooms[f] = {}
        /\ \A r \in Rooms : room_fixtures[r] = {} /\ room_doors[r] = {} /\ room_windows[r] = {}
        /\ \A a \in Objects : \A b \in Objects : adjacencies[a][b] = <<>>
        /\ \A w \in Walls : \A k \in DOMAIN opening_rooms[w] : opening_rooms[w][k] = <<>>

-----------------------------------------------------------------------------
(* Wall openings and room connectivity *)

\* the doors and windows of the floor, each named by its wall and its place
\* among the openings of that wall
Openings == {d \in Walls \X (1..2) : d[2] \in DOMAIN openings[d[1]]}

\* WallOpening.rooms of opening d
RoomsOf(d) == opening_rooms[d[1]][d[2]]

\* C11: after Floor.find_adjacencies, every door and window holds a room
\* list of length 0, 1 or 2, however many rooms are adjacent to its wall.
C11_OpeningRoomsAtMostTwo ==
    runs >= 1 => \A d \in Openings : Len(RoomsOf(d)) <= 2

\* Room.connected_rooms: the rooms the list returned holds, one for every
\* door of the room whose room list has length 2
connected_rooms(self) ==
    {IF RoomsOf(door)[1] = self THEN RoomsOf(door)[2] ELSE RoomsOf(door)[1] :
        door \in {d \in room_doors[self] : Len(RoomsOf(d)) = 2}}

\* C12: after any number of calls of Floor.find_adjacencies, S is in
\* R.connected_rooms() exactly if R is in S.connected_rooms(), and
\* R.connected_rooms() never holds R itself.
C12_ConnectedSymmetricIrreflexive ==
    \A R \in Rooms :
        /\ \A S \in Rooms : S \in connected_rooms(R) <=> R \in connected_rooms(S)
        /\ R \notin connected_rooms(R)

====
